---------------------------- MODULE Spec2Model ----------------------------
(***************************************************************************)
(* A model of the shape-completion core: the hole filler (filler.rs) and  *)
(* the point-set matching helper (matcher_helper.rs).                      *)
(*                                                                         *)
(* Points are records [x, y].  Indices into vectors are 0-based as in the  *)
(* source; a TLA+ sequence s holds element i of the vector at s[i + 1].    *)
(***************************************************************************)
EXTENDS Integers, Sequences, FiniteSets, TLC

VARIABLES
    pc,                    \* position of the running operation
    hole_rect,             \* fill: the hole rectangle
    curve_points,          \* fill: curve points still to be rasterized
    matrix,                \* the FilledHoleMatrix being built
    image,                 \* fill_holes: foreground pixels of the source image
    threshold,             \* fill_holes: blank_boundary_pixels_threshold
    endpoints,             \* fill_holes: the adjusted endpoints
    bounding_points,       \* fill_holes: boundary points from endpoints[0]
    current_point,         \* fill_holes: walk position (0-based index)
    prev_endpoint,         \* fill_holes: position the current arc started at
    total_outside_pixels,  \* fill_holes: positions counted in the current arc
    blank_outside_pixels,  \* fill_holes: blank outside pixels in the current arc
    sampled_points,        \* fill_holes: the three samples of the last filled arc
    seeds,                 \* fill_holes: samples still to be flood filled
    stack,                 \* fill_hole_iterative: pending points
    fill_matrix,           \* history: the matrix the running flood fill began with
    fill_seed,             \* history: the seed the running flood fill began with
    arc_ends,              \* history: per position, arcs that ended on it
    visits,                \* history: per position, times it was counted
    args,                  \* arguments of a pure operation under check
    ret                    \* its result

vars == <<pc, hole_rect, curve_points, matrix, image, threshold, endpoints, bounding_points,
          current_point, prev_endpoint, total_outside_pixels,
          blank_outside_pixels, sampled_points, seeds, stack, fill_matrix,
          fill_seed, arc_ends, visits, args, ret>>

fillVars == <<hole_rect, curve_points, image, threshold, endpoints, bounding_points,
              current_point, prev_endpoint, total_outside_pixels,
              blank_outside_pixels, sampled_points, seeds, arc_ends, visits>>

pureVars == <<args, ret>>

None == "none"

(***************************************************************************)
(* Bounds of the model.                                                    *)
(***************************************************************************)
MaxGridW == 3       \* flood fill alone: widest grid
MaxRectSide == 2    \* endpoint adjustment alone: longest rectangle side
Reach == 2          \* endpoint adjustment alone: how far outside points lie
MaxCurvePoints == 1 \* fill: points of the interpolated curves
MaxEndpoints == 3   \* fill: length of the endpoint list
MaxCount == 2       \* fill: the history counters stop counting here
DistScale == 2      \* a distance d is held as floor(d * DistScale)
MaxPairs == 3       \* matching equality: length of a list of index pairs
MaxIndex == 2       \* matching equality: largest index in a pair
MaxSetSize == 2     \* distance matrix: items per set, rows of a matrix

(***************************************************************************)
(* Points.                                                                 *)
(***************************************************************************)
Pt(x, y) == [x |-> x, y |-> y]

PtAdd(p, q) == Pt(p.x + q.x, p.y + q.y)

PtSub(p, q) == Pt(p.x - q.x, p.y - q.y)

Abs(v) == IF v < 0 THEN -v ELSE v

Min(a, b) == IF a <= b THEN a ELSE b

(***************************************************************************)
(* FilledHoleMatrix: width, height and a row-major vector of elements.     *)
(***************************************************************************)
Blank == "Blank"
Structure == "Structure"
Texture == "Texture"

FilledHoleElement == {Blank, Structure, Texture}

NewMatrix(width, height) ==
    [width |-> width, height |-> height,
     elems |-> [i \in 1..(width * height) |-> Blank]]

\* Index<PointUsize>: elems[index.y * width + index.x]
ElemIndex(m, p) == p.y * m.width + p.x

MatrixGet(m, p) == m.elems[ElemIndex(m, p) + 1]

MatrixSet(m, p, e) == [m EXCEPT !.elems[ElemIndex(m, p) + 1] = e]

(***************************************************************************)
(* HoleFiller::fill_hole_iterative, one loop iteration per step.           *)
(***************************************************************************)
OutOfRange(m, point) ==
    \/ point.x < 0
    \/ point.x >= m.width
    \/ point.y < 0
    \/ point.y >= m.height

OnlyTextureIsFilled(m, point) == MatrixGet(m, point) = Texture

\* "Already filled": the cell is not Blank.
AlreadyFilled(m, point) == MatrixGet(m, point) # Blank

NeighborsWithoutUp(point) ==
    << PtAdd(point, Pt(1, 0)), PtAdd(point, Pt(0, 1)), PtAdd(point, Pt(-1, 0)) >>

\* The four neighbours in the order they are pushed.
Neighbors(point) ==
    << PtAdd(point, Pt(1, 0)), PtAdd(point, Pt(0, 1)),
       PtAdd(point, Pt(-1, 0)), PtAdd(point, Pt(0, -1)) >>

\* let mut stack = vec![seed];
BeginFill(m, seed) ==
    /\ stack' = << seed >>
    /\ fill_matrix' = m
    /\ fill_seed' = seed

\* One iteration of `while !stack.is_empty()`.
FloodStep ==
    /\ pc = "flood"
    /\ stack # << >>
    /\ LET point == stack[Len(stack)]
           rest == SubSeq(stack, 1, Len(stack) - 1)
       IN  IF OutOfRange(matrix, point)
           THEN /\ stack' = rest
                /\ matrix' = matrix
           ELSE IF AlreadyFilled(matrix, point)
           THEN /\ stack' = rest
                /\ matrix' = matrix
           ELSE /\ matrix' = MatrixSet(matrix, point, Texture)
                /\ stack' = rest \o Neighbors(point)
    /\ UNCHANGED <<pc, fill_matrix, fill_seed>>
    /\ UNCHANGED fillVars
    /\ UNCHANGED pureVars

(***************************************************************************)
(* Flood fill alone: any grid of up to MaxGridW columns and one or two     *)
(* rows, any seed in the grid or one step outside it.                      *)
(***************************************************************************)
GridHeights == {1, 2}

FloodSeeds(m) == { Pt(x, y) : x \in (-1)..m.width, y \in (-1)..m.height }

IdleFill ==
    /\ hole_rect = None /\ image = None /\ threshold = None
    /\ curve_points = 0
    /\ endpoints = << >> /\ bounding_points = << >>
    /\ current_point = 0 /\ prev_endpoint = 0
    /\ total_outside_pixels = 0 /\ blank_outside_pixels = 0
    /\ sampled_points = << >> /\ seeds = << >>
    /\ arc_ends = << >> /\ visits = << >>

IdleFlood ==
    /\ matrix = NewMatrix(0, 0) /\ stack = << >>
    /\ fill_matrix = NewMatrix(0, 0) /\ fill_seed = Pt(0, 0)

IdlePure == args = None /\ ret = None

FloodInit ==
    /\ pc = "flood"
    /\ \E w \in 1..MaxGridW, h \in GridHeights :
         \E e \in [1..(w * h) -> FilledHoleElement] :
            matrix = [width |-> w, height |-> h, elems |-> e]
    /\ fill_matrix = matrix
    /\ fill_seed \in FloodSeeds(matrix)
    /\ stack = << fill_seed >>
    /\ IdleFill
    /\ IdlePure

FloodNext == FloodStep

FloodSpec == FloodInit /\ [][FloodNext]_vars

(***************************************************************************)
(* Reference semantics of a fill: the 4-connected Blank region of a seed,  *)
(* computed as a least fixed point over the cells of the grid.             *)
(***************************************************************************)
Cells(m) == { Pt(x, y) : x \in 0..(m.width - 1), y \in 0..(m.height - 1) }

Adjacent(p, q) == Abs(p.x - q.x) + Abs(p.y - q.y) = 1

RECURSIVE Grow(_, _)
Grow(m, region) ==
    LET more == { c \in Cells(m) :
                    /\ MatrixGet(m, c) = Blank
                    /\ \E r \in region : Adjacent(c, r) }
    IN  IF more \subseteq region THEN region ELSE Grow(m, region \cup more)

BlankRegion(m, seed) ==
    IF seed \in Cells(m) /\ MatrixGet(m, seed) = Blank
    THEN Grow(m, {seed})
    ELSE {}

\* C1: when fill_hole_iterative returns, the grid differs from the grid it was
\* given in exactly the cells of the 4-connected Blank region containing the
\* seed, all of which are Texture; every other cell is unchanged, and a seed
\* out of range or on a non-Blank cell leaves the grid unchanged.
C1_FloodFillsExactlyTheRegion ==
    (pc = "flood" /\ stack = << >>) =>
        /\ matrix.width = fill_matrix.width
        /\ matrix.height = fill_matrix.height
        /\ \A c \in Cells(fill_matrix) :
              MatrixGet(matrix, c) =
                  IF c \in BlankRegion(fill_matrix, fill_seed)
                  THEN Texture
                  ELSE MatrixGet(fill_matrix, c)
        /\ (fill_seed \notin Cells(fill_matrix) => matrix = fill_matrix)
        /\ (fill_seed \in Cells(fill_matrix)
               /\ MatrixGet(fill_matrix, fill_seed) # Blank
               => matrix = fill_matrix)

\* A fill that has returned after filling a region bounded by a Structure cell
\* and leaving a Blank cell outside it untouched.
C1_Witness ==
    /\ pc = "flood" /\ stack = << >>
    /\ Cardinality(BlankRegion(fill_matrix, fill_seed)) >= 2
    /\ \E c \in Cells(matrix) : MatrixGet(matrix, c) = Structure
    /\ \E c \in Cells(matrix) : MatrixGet(matrix, c) = Blank

(***************************************************************************)
(* BoundingRect: left, top, right, bottom, with the boundary queries the   *)
(* filler asks of it.  The rectangle type belongs to the vision library;   *)
(* its queries are modelled by their contract.                             *)
(***************************************************************************)
Rect(l, t, r, b) == [left |-> l, top |-> t, right |-> r, bottom |-> b]

RectWidth(r) == r.right - r.left

RectHeight(r) == r.bottom - r.top

TopLeft(r) == Pt(r.left, r.top)

TopRight(r) == Pt(r.right, r.top)

BottomLeft(r) == Pt(r.left, r.bottom)

BottomRight(r) == Pt(r.right, r.bottom)

\* have_point_on_boundary(p, tolerance): p is within `tolerance` of a side.
HavePointOnBoundary(r, p, tolerance) ==
    \/ /\ (Abs(p.x - r.left) <= tolerance \/ Abs(p.x - r.right) <= tolerance)
       /\ r.top - tolerance <= p.y
       /\ p.y <= r.bottom + tolerance
    \/ /\ (Abs(p.y - r.top) <= tolerance \/ Abs(p.y - r.bottom) <= tolerance)
       /\ r.left - tolerance <= p.x
       /\ p.x <= r.right + tolerance

\* The boundary as a cycle from the top-left corner: along the top side to
\* the right, down the right side, back along the bottom, up the left side.
ClockwiseBoundary(r) ==
    LET w == RectWidth(r)
        h == RectHeight(r)
    IN  [i \in 1..(2 * (w + h)) |->
            IF i <= w THEN Pt(r.left + (i - 1), r.top)
            ELSE IF i <= w + h THEN Pt(r.right, r.top + (i - w - 1))
            ELSE IF i <= 2 * w + h THEN Pt(r.right - (i - w - h - 1), r.bottom)
            ELSE Pt(r.left, r.bottom - (i - 2 * w - h - 1))]

Reversed(s) == [i \in 1..Len(s) |-> s[Len(s) + 1 - i]]

\* get_boundary_points_from(p, clockwise): the cycle rotated to start at p.
GetBoundaryPointsFrom(r, p, clockwise) ==
    LET cycle == IF clockwise THEN ClockwiseBoundary(r)
                 ELSE Reversed(ClockwiseBoundary(r))
        n == Len(cycle)
        k == CHOOSE i \in 1..n : cycle[i] = p
    IN  [i \in 1..n |-> cycle[((k - 1 + i - 1) % n) + 1]]

\* get_closest_point_outside(p), asked only of points off the right and
\* bottom sides: one step out of the top side, the left side, or both.
GetClosestPointOutside(r, p) ==
    Pt(IF p.x = r.left THEN p.x - 1 ELSE p.x,
       IF p.y = r.top THEN p.y - 1 ELSE p.y)

\* get_closest_point_inside(p), asked only of points off the left and top
\* sides: one step in from the right side, the bottom side, or both.
GetClosestPointInside(r, p) ==
    Pt(IF p.x = r.right THEN p.x - 1 ELSE p.x,
       IF p.y = r.bottom THEN p.y - 1 ELSE p.y)

(***************************************************************************)
(* PointF64::distance_to followed by `as i32`: the Euclidean distance      *)
(* between integer points, truncated to an integer.                        *)
(***************************************************************************)
SquaredDistance(p, q) == (p.x - q.x) * (p.x - q.x) + (p.y - q.y) * (p.y - q.y)

\* floor(sqrt(v))
ISqrt(v) == CHOOSE s \in 0..v : s * s <= v /\ v < (s + 1) * (s + 1)

\* distance_to of two points, in units of 1 / DistScale.
EuclideanDistance(p, q) == ISqrt(DistScale * DistScale * SquaredDistance(p, q))

\* `as i32` of a distance: truncation.
DistanceAsI32(p, q) == EuclideanDistance(p, q) \div DistScale

(***************************************************************************)
(* HoleFiller::adjust_endpoints.                                           *)
(***************************************************************************)
Corners(r) == << TopLeft(r), TopRight(r), BottomLeft(r), BottomRight(r) >>

\* Iterator::min_by_key over the corners: the first corner whose truncated
\* distance to the endpoint is least.
NearestCornerByKey(r, endpoint) ==
    LET cs == Corners(r)
        key(i) == DistanceAsI32(endpoint, cs[i])
        best == CHOOSE i \in 1..4 :
                    /\ \A j \in 1..4 : key(i) <= key(j)
                    /\ \A j \in 1..(i - 1) : key(j) > key(i)
    IN  cs[best]

AdjustEndpointKeepingCornerCase(r, endpoint) ==
    IF HavePointOnBoundary(r, endpoint, 0) THEN endpoint
    ELSE IF r.left <= endpoint.x /\ endpoint.x <= r.right
    THEN Pt(endpoint.x,
            IF Abs(r.top - endpoint.y) < Abs(r.bottom - endpoint.y)
            THEN r.top ELSE r.bottom)
    ELSE IF r.top <= endpoint.y /\ endpoint.y <= r.bottom
    THEN Pt(IF Abs(r.left - endpoint.x) < Abs(r.right - endpoint.x)
            THEN r.left ELSE r.right,
            endpoint.y)
    ELSE endpoint

\* The closure mapped over the endpoints.
AdjustEndpoint(r, endpoint) ==
    IF HavePointOnBoundary(r, endpoint, 0) THEN endpoint
    ELSE IF r.left <= endpoint.x /\ endpoint.x <= r.right
    THEN Pt(endpoint.x,
            IF Abs(r.top - endpoint.y) < Abs(r.bottom - endpoint.y)
            THEN r.top ELSE r.bottom)
    ELSE IF r.top <= endpoint.y /\ endpoint.y <= r.bottom
    THEN Pt(IF Abs(r.left - endpoint.x) < Abs(r.right - endpoint.x)
            THEN r.left ELSE r.right,
            endpoint.y)
    ELSE NearestCornerByKey(r, endpoint)

AdjustEndpoints(r, eps) == [i \in 1..Len(eps) |-> AdjustEndpoint(r, eps[i])]

(***************************************************************************)
(* Endpoint adjustment alone: any rectangle with sides up to MaxRectSide,  *)
(* any one or two points up to Reach outside it.                           *)
(***************************************************************************)
RectOrigins == { Pt(0, 0), Pt(-1, 2) }

AdjustRects ==
    { Rect(o.x, o.y, o.x + w, o.y + h) :
        o \in RectOrigins, w \in 1..MaxRectSide, h \in 1..MaxRectSide }

PointsAround(r) ==
    { Pt(x, y) : x \in (r.left - Reach)..(r.right + Reach),
                 y \in (r.top - Reach)..(r.bottom + Reach) }

AdjustInit ==
    /\ pc = "call_adjust_endpoints"
    /\ \E r \in AdjustRects :
         \E p \in PointsAround(r) :
           \E q \in PointsAround(r) :
             \E len \in {1, 2} :
               args = [hole_rect |-> r,
                       endpoints |-> IF len = 1 THEN << p >> ELSE << p, q >>]
    /\ ret = None
    /\ IdleFlood
    /\ IdleFill

CallAdjustEndpoints ==
    /\ pc = "call_adjust_endpoints"
    /\ ret' = AdjustEndpoints(args.hole_rect, args.endpoints)
    /\ pc' = "returned"
    /\ UNCHANGED <<args, matrix, stack, fill_matrix, fill_seed>>
    /\ UNCHANGED fillVars

AdjustNext == CallAdjustEndpoints

AdjustSpec == AdjustInit /\ [][AdjustNext]_vars

\* Exact membership of the rectangle's boundary, stated on its own.
OnBoundaryExactly(r, p) ==
    /\ r.left <= p.x /\ p.x <= r.right
    /\ r.top <= p.y /\ p.y <= r.bottom
    /\ (p.x = r.left \/ p.x = r.right \/ p.y = r.top \/ p.y = r.bottom)

\* C8: adjust_endpoints returns a point that is exactly on the boundary
\* unchanged, maps every other point to a point exactly on the boundary, and
\* adjusting its result again changes nothing.
C8_AdjustLandsOnBoundaryAndIsIdempotent ==
    pc = "returned" =>
        /\ Len(ret) = Len(args.endpoints)
        /\ \A i \in 1..Len(ret) :
             /\ OnBoundaryExactly(args.hole_rect, args.endpoints[i])
                  => ret[i] = args.endpoints[i]
             /\ OnBoundaryExactly(args.hole_rect, ret[i])
        /\ AdjustEndpoints(args.hole_rect, ret) = ret

\* A call that returned one point as it was given and moved another, from a
\* corner quadrant, onto the boundary.
C8_Witness ==
    /\ pc = "returned"
    /\ Len(ret) = 2
    /\ OnBoundaryExactly(args.hole_rect, args.endpoints[1])
    /\ ret[1] = args.endpoints[1]
    /\ args.endpoints[2].x > args.hole_rect.right
    /\ args.endpoints[2].y > args.hole_rect.bottom
    /\ ret[2] # args.endpoints[2]

OutsideBothSpans(r, p) ==
    /\ ~(r.left <= p.x /\ p.x <= r.right)
    /\ ~(r.top <= p.y /\ p.y <= r.bottom)

\* The first corner, in the order top-left, top-right, bottom-left,
\* bottom-right, whose exact Euclidean distance to p is least.
FirstNearestCorner(r, p) ==
    LET cs == Corners(r)
        d(i) == SquaredDistance(p, cs[i])
        best == CHOOSE i \in 1..4 :
                    /\ \A j \in 1..4 : d(i) <= d(j)
                    /\ \A j \in 1..(i - 1) : d(j) > d(i)
    IN  cs[best]

\* C9: a point outside both the horizontal and the vertical span is mapped to
\* the corner nearest to it by Euclidean distance, the first such corner in the
\* order top-left, top-right, bottom-left, bottom-right when several tie.
C9_CornerIsNearestByEuclideanDistance ==
    pc = "returned" =>
        \A i \in 1..Len(ret) :
            OutsideBothSpans(args.hole_rect, args.endpoints[i])
                => ret[i] = FirstNearestCorner(args.hole_rect, args.endpoints[i])

(***************************************************************************)
(* HoleFiller::fill: rasterize_intrapolated_curves, then fill_holes.       *)
(***************************************************************************)
HoleRects == { Rect(1, 1, 3, 2), Rect(1, 1, 2, 3) }

Thresholds == {0, 1}

Origin(r) == Pt(r.left, r.top)

\* The closure eval_outside_point, of a boundary point.
EvalOutsidePoint(r, point_val) ==
    IF point_val.x = r.right \/ point_val.y = r.bottom
    THEN point_val
    ELSE GetClosestPointOutside(r, point_val)

\* The closure eval_inside_point, of a boundary point.
EvalInsidePoint(r, point_val) ==
    IF point_val.x = r.left \/ point_val.y = r.top
    THEN point_val
    ELSE GetClosestPointInside(r, point_val)

\* An image at least as large as the hole rectangle: the pixels that can be
\* foreground, and the images tried: all foreground but for at most one
\* pixel just outside the hole, or all background.
ImagePixels(r) == { Pt(x, y) : x \in 0..r.right, y \in 0..r.bottom }

OutsideRing(r) ==
    { EvalOutsidePoint(r, ClockwiseBoundary(r)[i]) :
        i \in 1..Len(ClockwiseBoundary(r)) }

Images(r) ==
    {ImagePixels(r), {}} \cup { ImagePixels(r) \ {q} : q \in OutsideRing(r) }

\* BinaryImage::get_pixel_at_safe: false outside the image.
GetPixelAtSafe(img, p) == p \in img

\* fill, up to the call of rasterize_intrapolated_curves.
FillInit ==
    /\ pc = "rasterize"
    /\ hole_rect \in HoleRects
    /\ matrix = NewMatrix(RectWidth(hole_rect), RectHeight(hole_rect))
    /\ curve_points \in 0..MaxCurvePoints
    /\ image \in Images(hole_rect)
    /\ threshold \in Thresholds
    /\ endpoints = << >> /\ bounding_points = << >>
    /\ current_point = 0 /\ prev_endpoint = 0
    /\ total_outside_pixels = 0 /\ blank_outside_pixels = 0
    /\ sampled_points = << >> /\ seeds = << >>
    /\ arc_ends = << >> /\ visits = << >>
    /\ stack = << >> /\ fill_matrix = matrix /\ fill_seed = Pt(0, 0)
    /\ IdlePure

\* A point of a PathI32 or PathF64, offset and cast to PointUsize, is
\* stamped through the matrix index; an index past the vector panics.
RasterizePathPoint ==
    /\ pc = "rasterize"
    /\ curve_points > 0
    /\ \E x \in 0..matrix.width, y \in 0..matrix.height :
         IF ElemIndex(matrix, Pt(x, y)) < Len(matrix.elems)
         THEN /\ matrix' = MatrixSet(matrix, Pt(x, y), Structure)
              /\ pc' = pc
         ELSE /\ matrix' = matrix
              /\ pc' = "panic"
    /\ curve_points' = curve_points - 1
    /\ UNCHANGED <<hole_rect, image, threshold, endpoints, bounding_points,
                   current_point, prev_endpoint, total_outside_pixels,
                   blank_outside_pixels, sampled_points, seeds, arc_ends,
                   visits, stack, fill_matrix, fill_seed>>
    /\ UNCHANGED pureVars

\* rasterize_bezier_curve: a sample of the curve, clipped into the matrix.
RasterizeBezierPoint ==
    /\ pc = "rasterize"
    /\ curve_points > 0
    /\ \E x \in 0..(matrix.width + 1), y \in 0..(matrix.height + 1) :
         LET clipped_p == Pt(Min(x, matrix.width - 1), Min(y, matrix.height - 1))
         IN  matrix' = MatrixSet(matrix, clipped_p, Structure)
    /\ curve_points' = curve_points - 1
    /\ UNCHANGED <<pc, hole_rect, image, threshold, endpoints, bounding_points,
                   current_point, prev_endpoint, total_outside_pixels,
                   blank_outside_pixels, sampled_points, seeds, arc_ends,
                   visits, stack, fill_matrix, fill_seed>>
    /\ UNCHANGED pureVars

\* The endpoint lists tried: a first point, then up to MaxEndpoints - 1
\* further points in a fixed order (fill_holes reads the first endpoint and
\* the set of all of them), each on the boundary or one step off a corner.
EndpointCandidates(r) ==
    { p \in { Pt(x, y) : x \in (r.left - 1)..(r.right + 1),
                         y \in (r.top - 1)..(r.bottom + 1) } :
        \/ HavePointOnBoundary(r, p, 0)
        \/ OutsideBothSpans(r, p) }

Rank(r, p) == (p.y - r.top + 1) * (RectWidth(r) + 3) + (p.x - r.left + 1)

RECURSIVE InRankOrder(_, _)
InRankOrder(r, S) ==
    IF S = {} THEN << >>
    ELSE LET first == CHOOSE p \in S : \A q \in S : Rank(r, p) <= Rank(r, q)
         IN  << first >> \o InRankOrder(r, S \ {first})

EndpointLists(r) ==
    { << first >> \o InRankOrder(r, rest) :
        first \in EndpointCandidates(r),
        rest \in { S \in SUBSET EndpointCandidates(r) :
                     Cardinality(S) <= MaxEndpoints - 1 } }

Bump(f, i) == [f EXCEPT ![i] = Min(f[i] + 1, MaxCount)]

\* fill_holes, up to its loop: the endpoints are adjusted and the boundary
\* is enumerated from the first of them.
EnterFillHoles ==
    /\ pc = "rasterize"
    /\ curve_points = 0
    /\ \E eps \in EndpointLists(hole_rect) :
         LET adjusted == AdjustEndpoints(hole_rect, eps)
             points == GetBoundaryPointsFrom(hole_rect, adjusted[1], TRUE)
         IN  /\ endpoints' = adjusted
             /\ bounding_points' = points
             /\ arc_ends' = [i \in 0..(Len(points) - 1) |-> 0]
             /\ visits' = [i \in 0..(Len(points) - 1) |-> 0]
    /\ current_point' = 0
    /\ pc' = "arc_begin"
    /\ UNCHANGED <<hole_rect, curve_points, matrix, image, threshold,
                   prev_endpoint, total_outside_pixels, blank_outside_pixels,
                   sampled_points, seeds, stack, fill_matrix, fill_seed>>
    /\ UNCHANGED pureVars

NumPoints == Len(bounding_points)

BoundingPoint(idx) == bounding_points[idx + 1]

\* The closure is_endpoint.
IsEndpoint(p) == \E i \in 1..Len(endpoints) : endpoints[i] = p

\* The closure sample_point.
SamplePoint(from, to) ==
    LET cyclic_dist == IF to >= from THEN to - from
                       ELSE NumPoints - (from - to)
    IN  (from + (cyclic_dist \div 2)) % NumPoints

\* The head of the outer loop.
ArcBegin ==
    /\ pc = "arc_begin"
    /\ prev_endpoint' = current_point
    /\ total_outside_pixels' = 0
    /\ blank_outside_pixels' = 0
    /\ sampled_points' = << >>
    /\ pc' = "advance"
    /\ UNCHANGED <<hole_rect, curve_points, matrix, image, threshold, endpoints,
                   bounding_points, current_point, seeds, arc_ends, visits,
                   stack, fill_matrix, fill_seed>>
    /\ UNCHANGED pureVars

\* One iteration of the inner loop.
Advance ==
    /\ pc = "advance"
    /\ LET next == (current_point + 1) % NumPoints
           outside_point == EvalOutsidePoint(hole_rect, BoundingPoint(next))
       IN  /\ current_point' = next
           /\ total_outside_pixels' = total_outside_pixels + 1
           /\ blank_outside_pixels' =
                IF ~GetPixelAtSafe(image, outside_point)
                THEN blank_outside_pixels + 1
                ELSE blank_outside_pixels
           /\ visits' = Bump(visits, next)
           /\ IF IsEndpoint(BoundingPoint(next))
              THEN /\ pc' = "arc_test"
                   /\ arc_ends' = Bump(arc_ends, next)
              ELSE /\ pc' = pc
                   /\ arc_ends' = arc_ends
    /\ UNCHANGED <<hole_rect, curve_points, matrix, image, threshold, endpoints,
                   bounding_points, prev_endpoint, sampled_points, seeds,
                   stack, fill_matrix, fill_seed>>
    /\ UNCHANGED pureVars

\* The threshold test of the arc just walked and, when it passes, its three
\* samples.
ArcTest ==
    /\ pc = "arc_test"
    /\ IF /\ total_outside_pixels > threshold
          /\ blank_outside_pixels <= threshold
       THEN LET sampled_mid_point == SamplePoint(prev_endpoint, current_point)
                sampled == << SamplePoint(prev_endpoint, sampled_mid_point),
                              sampled_mid_point,
                              SamplePoint(sampled_mid_point, current_point) >>
            IN  /\ sampled_points' = sampled
                /\ seeds' = sampled
                /\ pc' = "flood"
       ELSE /\ UNCHANGED <<sampled_points, seeds>>
            /\ pc' = "arc_end"
    /\ UNCHANGED <<hole_rect, curve_points, matrix, image, threshold, endpoints,
                   bounding_points, current_point, prev_endpoint,
                   total_outside_pixels, blank_outside_pixels, arc_ends,
                   visits, stack, fill_matrix, fill_seed>>
    /\ UNCHANGED pureVars

\* The next sample is mapped to its inside point and flood filled from there.
FillFromSample ==
    /\ pc = "flood"
    /\ stack = << >>
    /\ seeds # << >>
    /\ LET inside_point == EvalInsidePoint(hole_rect, BoundingPoint(Head(seeds)))
       IN  BeginFill(matrix, PtSub(inside_point, Origin(hole_rect)))
    /\ seeds' = Tail(seeds)
    /\ UNCHANGED <<pc, hole_rect, curve_points, matrix, image, threshold,
                   endpoints, bounding_points, current_point, prev_endpoint,
                   total_outside_pixels, blank_outside_pixels, sampled_points,
                   arc_ends, visits>>
    /\ UNCHANGED pureVars

\* The last of the three fills has returned.
SamplesFilled ==
    /\ pc = "flood"
    /\ stack = << >>
    /\ seeds = << >>
    /\ pc' = "arc_end"
    /\ UNCHANGED <<hole_rect, curve_points, matrix, image, threshold, endpoints,
                   bounding_points, current_point, prev_endpoint,
                   total_outside_pixels, blank_outside_pixels, sampled_points,
                   seeds, arc_ends, visits, stack, fill_matrix, fill_seed>>
    /\ UNCHANGED pureVars

\* The foot of the outer loop: return at position 0, else step on.
ArcEnd ==
    /\ pc = "arc_end"
    /\ IF current_point = 0
       THEN /\ pc' = "done"
            /\ current_point' = current_point
       ELSE /\ current_point' = (current_point + 1) % NumPoints
            /\ pc' = "arc_begin"
    /\ UNCHANGED <<hole_rect, curve_points, matrix, image, threshold, endpoints,
                   bounding_points, prev_endpoint, total_outside_pixels,
                   blank_outside_pixels, sampled_points, seeds, arc_ends,
                   visits, stack, fill_matrix, fill_seed>>
    /\ UNCHANGED pureVars

Init == FillInit

Next ==
    \/ RasterizePathPoint
    \/ RasterizeBezierPoint
    \/ EnterFillHoles
    \/ ArcBegin
    \/ Advance
    \/ ArcTest
    \/ FillFromSample
    \/ FloodStep
    \/ SamplesFilled
    \/ ArcEnd

Spec == Init /\ [][Next]_vars

\* The steps of fill_holes once its loop is entered.
WalkNext ==
    \/ ArcBegin
    \/ Advance
    \/ ArcTest
    \/ FillFromSample
    \/ FloodStep
    \/ SamplesFilled
    \/ ArcEnd

\* The filler runs on one thread: inside fill_holes it takes its next step
\* whenever it has one.
FairSpec == Spec /\ WF_vars(WalkNext)

(***************************************************************************)
(* Claims about the boundary walk and the fill as a whole.                 *)
(***************************************************************************)
Positions == 0..(NumPoints - 1)

\* C2: the boundary walk of fill_holes terminates: once it has started, it
\* eventually ends an arc on boundary index 0 and returns, wherever the
\* other endpoints sit on the boundary.
C2_WalkTerminates == (pc = "arc_begin") ~> (pc = "done")

\* C3: during one boundary walk no boundary position is counted in more than
\* one arc, no endpoint ends more than one arc, and when the walk returns
\* every endpoint has ended exactly one arc.
C3_EveryEndpointEndsExactlyOneArc ==
    pc \in {"arc_begin", "advance", "arc_test", "flood", "arc_end", "done"} =>
        /\ \A i \in Positions : visits[i] <= 1 /\ arc_ends[i] <= 1
        /\ pc = "done" =>
             \A i \in Positions :
                 IsEndpoint(BoundingPoint(i)) => arc_ends[i] = 1

AllBlank(m) == \A i \in 1..Len(m.elems) : m.elems[i] = Blank

\* C4: throughout fill every cell starts Blank and changes only from Blank,
\* to Structure or to Texture: a cell that is Structure or Texture is never
\* changed afterwards.
C4_CellsOnlyLeaveBlank ==
    /\ AllBlank(matrix)
    /\ [][ /\ Len(matrix'.elems) = Len(matrix.elems)
           /\ \A i \in 1..Len(matrix.elems) :
                /\ matrix.elems[i] # Blank => matrix'.elems[i] = matrix.elems[i]
                /\ matrix'.elems[i] \in FilledHoleElement ]_vars

\* A fill that has returned with a rasterized cell still Structure beside
\* flood-filled cells.
C4_Witness ==
    /\ pc = "done"
    /\ \E i \in 1..Len(matrix.elems) : matrix.elems[i] = Structure
    /\ \E i \in 1..Len(matrix.elems) : matrix.elems[i] = Texture

\* C10: for an arc that passes the threshold test, with L the number of
\* boundary steps from the arc's start to the endpoint that ends it (the whole
\* perimeter when it ends where it started), the samples are floor(L/2)/2,
\* floor(L/2) and floor(L/2) + floor((L - floor(L/2))/2) steps after the start,
\* cyclically.
C10_SamplesAreQuarterHalfThreeQuarter ==
    sampled_points # << >> =>
        LET L == total_outside_pixels
            half == L \div 2
        IN  sampled_points =
              << (prev_endpoint + (half \div 2)) % NumPoints,
                 (prev_endpoint + half) % NumPoints,
                 (prev_endpoint + half + ((L - half) \div 2)) % NumPoints >>

\* The seed of the flood fill last started by the walk: it is fill_seed once
\* the first of the arc's three samples has been taken off `seeds`.
FillStarted == sampled_points # << >> /\ Len(seeds) < Len(sampled_points)

\* C11: every seed that fill_holes passes to fill_hole_iterative (the inside
\* point of a sampled boundary position, less the hole's top-left corner)
\* lies inside the grid: 0 <= x < width and 0 <= y < height.
C11_SeedsLieInsideTheGrid ==
    FillStarted =>
        /\ 0 <= fill_seed.x /\ fill_seed.x < matrix.width
        /\ 0 <= fill_seed.y /\ fill_seed.y < matrix.height

(***************************************************************************)
(* matcher_helper.rs: Matching and its equality.                           *)
(***************************************************************************)
SortIndexPair(pair) ==
    IF pair[1] <= pair[2] THEN pair ELSE << pair[2], pair[1] >>

GetSortedIndexPairs(index_pairs) ==
    [i \in 1..Len(index_pairs) |-> SortIndexPair(index_pairs[i])]

\* Iterator::collect into a HashMap: a later pair replaces an earlier pair
\* with the same key.
CollectHashMap(pairs) ==
    LET keys == { pairs[i][1] : i \in 1..Len(pairs) }
        last(k) == CHOOSE i \in 1..Len(pairs) :
                      /\ pairs[i][1] = k
                      /\ \A j \in (i + 1)..Len(pairs) : pairs[j][1] # k
    IN  [k \in keys |-> pairs[last(k)][2]]

\* impl PartialEq for Matching
MatchingEq(self, other) ==
    IF Len(self) # Len(other) THEN FALSE
    ELSE LET self_index_hash_map == CollectHashMap(GetSortedIndexPairs(self))
             other_sorted_index_pairs == GetSortedIndexPairs(other)
         IN  \A i \in 1..Len(other_sorted_index_pairs) :
                LET a == other_sorted_index_pairs[i][1]
                    b == other_sorted_index_pairs[i][2]
                IN  /\ a \in DOMAIN self_index_hash_map
                    /\ self_index_hash_map[a] = b

\* Matching::from_pairs
FromPairs(pairs) == pairs

(***************************************************************************)
(* Matching equality alone: any two lists of up to MaxPairs index pairs    *)
(* over the indices 0..MaxIndex.                                           *)
(***************************************************************************)
IndexPairs == (0..MaxIndex) \X (0..MaxIndex)

MatchInit ==
    /\ pc = "call_eq"
    /\ \E alen \in 0..MaxPairs, blen \in 0..MaxPairs :
         \E a \in [1..alen -> IndexPairs], b \in [1..blen -> IndexPairs] :
            args = [self |-> FromPairs(a), other |-> FromPairs(b)]
    /\ ret = None
    /\ IdleFlood
    /\ IdleFill

CallEq ==
    /\ pc = "call_eq"
    /\ ret' = [eq |-> MatchingEq(args.self, args.other)]
    /\ pc' = "returned"
    /\ UNCHANGED <<args, matrix, stack, fill_matrix, fill_seed>>
    /\ UNCHANGED fillVars

MatchNext == CallEq

MatchSpec == MatchInit /\ [][MatchNext]_vars

Bijections(n) ==
    { f \in [0..(n - 1) -> 0..(n - 1)] : \A i, j \in 0..(n - 1) : f[i] = f[j] => i = j }

\* index_pairs lists the pairs (i, f[i]), i in 0..n-1, in some order, each
\* pair written either way round.
ListsBijection(index_pairs, n, f) ==
    /\ Len(index_pairs) = n
    /\ \E order \in Bijections(n) :
         \A k \in 1..n :
            \/ index_pairs[k] = << order[k - 1], f[order[k - 1]] >>
            \/ index_pairs[k] = << f[order[k - 1]], order[k - 1] >>

\* C5: two Matchings whose index_pairs list the pairs (i, f(i)) of one
\* bijection f on 0..n-1, in any order and with any pair written swapped,
\* compare equal; in particular each compares equal to itself.
C5_SameBijectionComparesEqual ==
    pc = "returned" =>
        \A n \in 0..MaxPairs :
            \A f \in Bijections(n) :
                (ListsBijection(args.self, n, f) /\ ListsBijection(args.other, n, f))
                    => ret.eq

(***************************************************************************)
(* impl Hash for Matching: the fold over the sorted pairs, from (0, 0),    *)
(* adding the smaller indices into sum_a and the larger into sum_b; the    *)
(* two sums are what the hasher is fed.  The indices stay far below the    *)
(* width of usize, so the additions are plain.                             *)
(***************************************************************************)
RECURSIVE FoldSums(_, _, _)
FoldSums(sums, pairs, k) ==
    IF k > Len(pairs) THEN sums
    ELSE FoldSums(<< sums[1] + pairs[k][1], sums[2] + pairs[k][2] >>, pairs, k + 1)

HashedValues(index_pairs) ==
    LET self_sorted_index_pairs == GetSortedIndexPairs(index_pairs)
    IN  FoldSums(<< 0, 0 >>, self_sorted_index_pairs, 1)

\* a == b, b == a, and the hashing of a and of b, for the two Matchings of
\* MatchInit.
CallEqAndHash ==
    /\ pc = "call_eq"
    /\ ret' = [eq       |-> MatchingEq(args.self, args.other),
               eq_flip  |-> MatchingEq(args.other, args.self),
               hash_a   |-> HashedValues(args.self),
               hash_b   |-> HashedValues(args.other)]
    /\ pc' = "returned"
    /\ UNCHANGED <<args, matrix, stack, fill_matrix, fill_seed>>
    /\ UNCHANGED fillVars

EqHashNext == CallEqAndHash

EqHashSpec == MatchInit /\ [][EqHashNext]_vars

\* C12: for any two Matchings a and b built by from_pairs from arbitrary
\* lists of index pairs, a == b implies that a and b feed the same two sums
\* to the hasher, and a == b holds exactly when b == a.
C12_EqAgreesWithHashAndIsSymmetric ==
    pc = "returned" =>
        /\ ret.eq => ret.hash_a = ret.hash_b
        /\ ret.eq <=> ret.eq_flip

(***************************************************************************)
(* matcher_helper.rs: SquareDistanceMatrix.                                *)
(***************************************************************************)
\* impl Distanced for MatchItem
DistanceTo(self, other) == EuclideanDistance(self.point, other.point)

TransposedStoreIndex(n, i, j) == j * n + i

\* distances[i * n + j]
StoreIndex(n, i, j) == i * n + j

\* The two nested loops of from_two_sets, from step k = i * n + j on.
RECURSIVE FromTwoSetsLoop(_, _, _, _, _)
FromTwoSetsLoop(distances, set1, set2, n, k) ==
    IF k >= n * n THEN distances
    ELSE LET i == k \div n
             j == k % n
         IN  FromTwoSetsLoop(
                 [distances EXCEPT ![StoreIndex(n, i, j) + 1] =
                      DistanceTo(set1[i + 1], set2[j + 1])],
                 set1, set2, n, k + 1)

FromTwoSets(set1, set2) ==
    LET n == Len(set1)
    IN  [n |-> n,
         distances |-> FromTwoSetsLoop([k \in 1..(n * n) |-> 0], set1, set2, n, 0)]

\* impl Index<usize> for SquareDistanceMatrix: a row.
RowOf(m, index) == SubSeq(m.distances, index * m.n + 1, (index + 1) * m.n)

\* MatchItemSet::from_match_items_and_set_ids over items made by
\* new_with_default_id, or the items as they are.
MatchItems(points, direction, set_ids) ==
    [i \in 1..Len(points) |->
        [id |-> IF set_ids THEN i - 1 ELSE 0,
         point |-> points[i],
         direction |-> direction]]

(***************************************************************************)
(* Distance matrix construction alone: two sets of equal size up to        *)
(* MaxSetSize, with ids set or left at the default.                        *)
(***************************************************************************)
ItemPoints == { Pt(0, 0), Pt(0, 2), Pt(3, 0) }

ItemDirections == { Pt(0, 0), Pt(1, 0) }

ItemSets(n) ==
    { MatchItems(points, direction, set_ids) :
        points \in [1..n -> ItemPoints],
        direction \in ItemDirections,
        set_ids \in BOOLEAN }

DistInit ==
    /\ pc = "call_from_two_sets"
    /\ \E n \in 1..MaxSetSize :
         \E set1 \in ItemSets(n), set2 \in ItemSets(n) :
            args = [set1 |-> set1, set2 |-> set2]
    /\ ret = None
    /\ IdleFlood
    /\ IdleFill

CallFromTwoSets ==
    /\ pc = "call_from_two_sets"
    /\ ret' = FromTwoSets(args.set1, args.set2)
    /\ pc' = "returned"
    /\ UNCHANGED <<args, matrix, stack, fill_matrix, fill_seed>>
    /\ UNCHANGED fillVars

DistNext == CallFromTwoSets

DistSpec == DistInit /\ [][DistNext]_vars

\* C7: from_two_sets(A, B) yields a matrix with n = |A| whose entry
\* matrix[i][j], at row-major position i * n + j, is the distance between the
\* locations of A[i] and B[j], whatever the items' ids and directions.
C7_EntryIsDistanceBetweenLocations ==
    pc = "returned" =>
        /\ ret.n = Len(args.set1)
        /\ Len(ret.distances) = ret.n * ret.n
        /\ \A i, j \in 0..(ret.n - 1) :
             /\ RowOf(ret, i)[j + 1] =
                  EuclideanDistance(args.set1[i + 1].point, args.set2[j + 1].point)
             /\ ret.distances[i * ret.n + j + 1] = RowOf(ret, i)[j + 1]

\* A matrix of two rows whose entries (0, 1) and (1, 0) differ, built from
\* items that carry ids and a direction.
C7_Witness ==
    /\ pc = "returned"
    /\ ret.n = 2
    /\ RowOf(ret, 0)[2] # RowOf(ret, 1)[1]
    /\ args.set1[2].id = 1
    /\ args.set1[1].direction # Pt(0, 0)

(***************************************************************************)
(* SquareDistanceMatrix::into_matching.  The assignment solver belongs to  *)
(* the hungarian crate; it is modelled by its contract: some assignment of *)
(* a distinct column to every row with the least total cost.               *)
(***************************************************************************)
RoundedUp(dist) == IF dist <= 0 THEN 0 ELSE (dist + DistScale - 1) \div DistScale

\* `dist as u64` of a distance held in units of 1 / DistScale: truncation,
\* and 0 for a negative distance.
DistAsU64(dist) == IF dist <= 0 THEN 0 ELSE dist \div DistScale

RECURSIVE SumOver(_, _)
SumOver(f, S) ==
    IF S = {} THEN 0
    ELSE LET x == CHOOSE x \in S : TRUE
         IN  f[x] + SumOver(f, S \ {x})

Assignments(height, width) ==
    { r \in [1..height -> 0..(width - 1)] :
        \A i, j \in 1..height : r[i] = r[j] => i = j }

AssignmentCost(costs, width, r) ==
    SumOver([i \in 1..Len(r) |-> costs[(i - 1) * width + r[i] + 1]], 1..Len(r))

\* hungarian::minimize(matrix, height, width): the results it may return.
Minimize(costs, height, width) ==
    { r \in Assignments(height, width) :
        \A other \in Assignments(height, width) :
            AssignmentCost(costs, width, r) <= AssignmentCost(costs, width, other) }

\* Matching::from_hungarian_result: (i, j) for every row i.
FromHungarianResult(hungarian_result) ==
    [i \in 1..Len(hungarian_result) |-> << i - 1, hungarian_result[i] >>]

\* The cost matrix into_matching hands to the solver.
CostMatrix(m) == [k \in 1..Len(m.distances) |-> DistAsU64(m.distances[k])]

(***************************************************************************)
(* into_matching alone: any square matrix of up to MaxSetSize rows with    *)
(* entries among a few distances, in units of 1 / DistScale.               *)
(***************************************************************************)
DistanceValues == {0, 1, 2, 3}

HungarianInit ==
    /\ pc = "call_into_matching"
    /\ \E n \in 1..MaxSetSize :
         \E d \in [1..(n * n) -> DistanceValues] :
            args = [self |-> [n |-> n, distances |-> d]]
    /\ ret = None
    /\ IdleFlood
    /\ IdleFill

CallIntoMatching ==
    /\ pc = "call_into_matching"
    /\ \E hungarian_result \in Minimize(CostMatrix(args.self), args.self.n, args.self.n) :
         ret' = FromHungarianResult(hungarian_result)
    /\ pc' = "returned"
    /\ UNCHANGED <<args, matrix, stack, fill_matrix, fill_seed>>
    /\ UNCHANGED fillVars

HungarianNext == CallIntoMatching

HungarianSpec == HungarianInit /\ [][HungarianNext]_vars

\* floor of a distance held in units of 1 / DistScale
Truncated(dist) == dist \div DistScale

\* The total of the truncated distances of the pairs (i, j) of a list.
TruncatedTotal(m, index_pairs) ==
    SumOver([k \in 1..Len(index_pairs) |->
                Truncated(m.distances[index_pairs[k][1] * m.n + index_pairs[k][2] + 1])],
            1..Len(index_pairs))

\* C6: into_matching of an n x n matrix of non-negative distances returns
\* exactly n pairs (i, j), every row index once as i and every column index
\* once as j, whose total truncated distance is no greater than that of any
\* other permutation.
C6_MatchingIsOptimalBijection ==
    pc = "returned" =>
        LET n == args.self.n
        IN  /\ Len(ret) = n
            /\ \A i \in 0..(n - 1) :
                 /\ Cardinality({ k \in 1..n : ret[k][1] = i }) = 1
                 /\ Cardinality({ k \in 1..n : ret[k][2] = i }) = 1
            /\ \A g \in Bijections(n) :
                 TruncatedTotal(args.self, ret) <=
                     TruncatedTotal(args.self, [k \in 1..n |-> << k - 1, g[k - 1] >>])

\* A matching of two rows that is not the identity, returned for a matrix in
\* which the identity costs more.
C6_Witness ==
    /\ pc = "returned"
    /\ args.self.n = 2
    /\ ret = << <<0, 1>>, <<1, 0>> >>
    /\ TruncatedTotal(args.self, ret) <
           TruncatedTotal(args.self, << <<0, 0>>, <<1, 1>> >>)

=============================================================================
